---- MODULE Spec2Model ----
(***************************************************************************)
(* A model of chunking.py: the one-shot batch script that splits a text    *)
(* into paragraphs, asks an LLM for the propositions of each paragraph,    *)
(* embeds every proposition, upserts the records into a remote vector      *)
(* index and fetches a few of them back.                                   *)
(*                                                                         *)
(* Strings the script inspects character by character (the input text and  *)
(* its paragraphs) are sequences of one-character strings.  The three      *)
(* external services (LLM, embedding model, vector index) are modelled by  *)
(* their call sites: every call either returns or raises, and what the LLM *)
(* returns is a nondeterministic choice.                                   *)
(***************************************************************************)
EXTENDS Integers, Sequences, FiniteSets, TLC

VARIABLES
    env0,            \* GOOGLE_API_KEY in the environment the process starts with
    environ,         \* os.environ["GOOGLE_API_KEY"] inside the process
    prompted,        \* getpass.getpass was called
    llm_key,         \* google_api_key the ChatGoogleGenerativeAI client is built with
    text,            \* text
    paragraphs,      \* paragraphs
    para_i,          \* position of the extraction loop in paragraphs (1-based)
    text_chunk,      \* get_propositions' parameter
    runnable_output, \* get_propositions' local
    returned,        \* what get_propositions returned, call by call
    propositions,    \* propositions
    vectors,         \* vectors
    index,           \* the records held by the remote index "qv"
    index0,          \* the records the index held when the process started
    uploaded,        \* the "Successfully uploaded" line was printed
    ids_to_check,    \* ids_to_check
    resp,            \* resp["vectors"]: the records index.fetch returned
    log,             \* the external calls made by this process, in order
    failed_at,       \* the call whose exception ended the process
    run,             \* how many times the script has been started
    pc

vars == <<env0, environ, prompted, llm_key, text, paragraphs, para_i, text_chunk,
          runnable_output, returned, propositions, vectors, index, index0,
          uploaded, ids_to_check, resp, log, failed_at, run, pc>>

-----------------------------------------------------------------------------
(* Bounds *)

MaxTextLen == 6

MaxRuns == 2

-----------------------------------------------------------------------------
(* Characters and strings *)

NL == "\n"

SP == " "

Chars == {"a", SP, NL}

Whitespace == {SP, NL}

NoKey == "<unset>"

HardcodedKey == "AIza-hardcoded"

RECURSIVE LStrip(_)
LStrip(s) ==
    IF s # <<>> /\ Head(s) \in Whitespace THEN LStrip(Tail(s)) ELSE s

RECURSIVE RStrip(_)
RStrip(s) ==
    IF s # <<>> /\ s[Len(s)] \in Whitespace
    THEN RStrip(SubSeq(s, 1, Len(s) - 1))
    ELSE s

\* str.strip()
Strip(s) == RStrip(LStrip(s))

\* position of the first "\n\n" in s at or after position k, 0 when there is none
RECURSIVE FindSep(_, _)
FindSep(s, k) ==
    IF k + 1 > Len(s) THEN 0
    ELSE IF s[k] = NL /\ s[k + 1] = NL THEN k
    ELSE FindSep(s, k + 1)

RECURSIVE SplitEveryNewline(_)
SplitEveryNewline(s) ==
    IF s = <<>> THEN <<s>>
    ELSE IF Head(s) = NL THEN <<(<<>>)>> \o SplitEveryNewline(Tail(s))
    ELSE LET rest == SplitEveryNewline(Tail(s))
         IN  <<(<<Head(s)>> \o Head(rest))>> \o Tail(rest)

\* str.split("\n\n")
RECURSIVE SplitBlank(_)
SplitBlank(s) ==
    LET k == FindSep(s, 1)
    IN  IF k = 0 THEN <<s>>
        ELSE <<SubSeq(s, 1, k - 1)>> \o SplitBlank(SubSeq(s, k + 2, Len(s)))

RECURSIVE StripNonEmpty(_)
StripNonEmpty(pieces) ==
    IF pieces = <<>> THEN <<>>
    ELSE LET p == Strip(Head(pieces))
         IN  (IF p # <<>> THEN <<p>> ELSE <<>>) \o StripNonEmpty(Tail(pieces))

\* [p.strip() for p in text.split("\n\n") if p.strip()]
ParagraphsOf(t) == StripNonEmpty(SplitBlank(t))

-----------------------------------------------------------------------------
(* Inputs *)

\* the script's text has three paragraphs; the other texts have one and none
Text3 == <<"a", NL, NL, "a", "a", NL, NL, "a">>

Texts == {Text3, <<"a", NL, SP, NL, "a">>, <<SP, NL>>}

\* every text of at most MaxTextLen characters
RECURSIVE TextsOfLen(_)
TextsOfLen(n) ==
    IF n = 0 THEN {<<>>}
    ELSE {Append(t, c) : t \in TextsOfLen(n - 1), c \in Chars}

AllTexts == UNION {TextsOfLen(n) : n \in 0..MaxTextLen}

\* what the environment may hold for GOOGLE_API_KEY when the process starts
EnvKeys == {NoKey, "key-from-env"}

\* what the user may type at the getpass prompt
TypedKeys == {"key-typed"}

\* the free text the prompt call may return
FreeTexts == {"- A. - B."}

\* the sentence lists the schema-constrained call may return
ExtractorOutputs == {<<>>, <<"A.">>, <<"A.", "B.">>}

-----------------------------------------------------------------------------
(* Vector records and the index *)

\* embedding_model.encode(sent).tolist(): deterministic in sent
Encode(sent) ==
    CASE sent = "A." -> <<1, 0>>
      [] sent = "B." -> <<0, 1>>
      [] OTHER -> <<1, 1>>

\* f"prop_{i}"
PropId(i) == "prop_" \o ToString(i)

MakeRecordOneBased(i, sent) ==
    [id |-> PropId(i + 1), values |-> Encode(sent), metadata |-> [content |-> sent]]

\* the dict appended to vectors for enumerate index i
MakeRecord(i, sent) ==
    [id |-> PropId(i), values |-> Encode(sent), metadata |-> [content |-> sent]]

StoredRecord(id, sent) ==
    [id |-> id, values |-> Encode(sent), metadata |-> [content |-> sent]]

\* what the index may hold before the script ever ran
InitialIndexes ==
    { {}, {StoredRecord("doc_1", "Z."), StoredRecord("prop_4", "Z.")} }

Range(seq) == {seq[k] : k \in 1..Len(seq)}

Ids(records) == {r.id : r \in records}

UpsertInsertOnly(idx, batch) == idx \cup Range(batch)

UpsertReplaceAll(idx, batch) == Range(batch)

\* index.upsert(vectors=batch): insert, or overwrite the record with the same id
Upsert(idx, batch) ==
    {r \in idx : r.id \notin Ids(Range(batch))} \cup Range(batch)

\* index.fetch(ids=ids): the records found, in the order asked for; ids not
\* found are omitted
RECURSIVE Fetch(_, _)
Fetch(idx, ids) ==
    IF ids = <<>> THEN <<>>
    ELSE LET found == {r \in idx : r.id = Head(ids)}
         IN  (IF found = {} THEN <<>> ELSE <<CHOOSE r \in found : TRUE>>)
                 \o Fetch(idx, Tail(ids))

FetchCount == 5

ExtendReplacing(props, extracted) == extracted

ExtendPrepending(props, extracted) == extracted \o props

\* propositions.extend(extracted)
Extend(props, extracted) == props \o extracted

\* [f"prop_{i}" for i in range(5)]
IdsToCheck == [k \in 1..FetchCount |-> PropId(k - 1)]

-----------------------------------------------------------------------------
(* The script, statement by statement *)

Call(name, k, ok) == [call |-> name, k |-> k, ok |-> ok]

\* where control goes when the embedding loop has built nv of np records
PcAfterEncode(nv, np) == IF nv < np THEN "encode" ELSE "upsert"

Fresh ==
    /\ prompted = FALSE
    /\ llm_key = NoKey
    /\ paragraphs = <<>>
    /\ para_i = 1
    /\ text_chunk = <<>>
    /\ runnable_output = ""
    /\ returned = <<>>
    /\ propositions = <<>>
    /\ vectors = <<>>
    /\ uploaded = FALSE
    /\ ids_to_check = <<>>
    /\ resp = <<>>
    /\ log = <<>>
    /\ failed_at = "none"
    /\ pc = "start"

Init ==
    /\ env0 \in EnvKeys
    /\ environ = env0
    /\ text \in Texts
    /\ index \in InitialIndexes
    /\ index0 = index
    /\ run = 1
    /\ Fresh

\* the same script over every text of at most MaxTextLen characters
InitAnyText ==
    /\ env0 = NoKey
    /\ environ = env0
    /\ text \in AllTexts
    /\ index = {}
    /\ index0 = index
    /\ run = 1
    /\ Fresh

\* os.environ["GOOGLE_API_KEY"] = "<literal>"
SetEnviron ==
    /\ pc = "start"
    /\ environ' = HardcodedKey
    /\ pc' = "check_key"
    /\ UNCHANGED <<env0, prompted, llm_key, text, paragraphs, para_i, text_chunk,
                   runnable_output, returned, propositions, vectors, index, index0,
                   uploaded, ids_to_check, resp, log, failed_at, run>>

\* if not os.environ.get("GOOGLE_API_KEY"): os.environ[...] = getpass.getpass(...)
CheckKey ==
    /\ pc = "check_key"
    /\ IF environ = NoKey \/ environ = ""
       THEN /\ \E typed \in TypedKeys : environ' = typed
            /\ prompted' = TRUE
       ELSE UNCHANGED <<environ, prompted>>
    /\ pc' = "build_llm"
    /\ UNCHANGED <<env0, llm_key, text, paragraphs, para_i, text_chunk,
                   runnable_output, returned, propositions, vectors, index, index0,
                   uploaded, ids_to_check, resp, log, failed_at, run>>

\* llm = ChatGoogleGenerativeAI(..., google_api_key=os.environ["GOOGLE_API_KEY"]),
\* then the prompt, the Pinecone client, pc.Index(index_name) and the embedding
\* model: the index is connected to as it is
BuildClients ==
    /\ pc = "build_llm"
    /\ llm_key' = environ
    /\ pc' = "split"
    /\ UNCHANGED <<env0, environ, prompted, text, paragraphs, para_i, text_chunk,
                   runnable_output, returned, propositions, vectors, index, index0,
                   uploaded, ids_to_check, resp, log, failed_at, run>>

\* paragraphs = [...]; propositions = []; with no paragraph the extraction loop
\* is skipped, vectors = [] and the embedding loop is skipped too
SplitText ==
    /\ pc = "split"
    /\ paragraphs' = ParagraphsOf(text)
    /\ propositions' = <<>>
    /\ para_i' = 1
    /\ vectors' = <<>>
    /\ pc' = IF paragraphs' # <<>> THEN "runnable" ELSE "upsert"
    /\ UNCHANGED <<env0, environ, prompted, llm_key, text, text_chunk,
                   runnable_output, returned, index, index0,
                   uploaded, ids_to_check, resp, log, failed_at, run>>

InvokeRunnableRetrying ==
    /\ pc = "runnable"
    /\ text_chunk' = paragraphs[para_i]
    /\ \E ok \in BOOLEAN :
         /\ log' = Append(log, Call("runnable.invoke", para_i, ok))
         /\ IF ok
            THEN /\ \E out \in FreeTexts : runnable_output' = out
                 /\ pc' = "structured"
            ELSE UNCHANGED <<runnable_output, pc>>
    /\ Len(log) < 12
    /\ UNCHANGED <<env0, environ, prompted, llm_key, text, paragraphs, para_i,
                   returned, propositions, vectors, index, index0, failed_at,
                   uploaded, ids_to_check, resp, run>>

\* get_propositions(para), first statement:
\* runnable_output = runnable.invoke({"input": text_chunk}).content
InvokeRunnable ==
    /\ pc = "runnable"
    /\ text_chunk' = paragraphs[para_i]
    /\ \E ok \in BOOLEAN :
         /\ log' = Append(log, Call("runnable.invoke", para_i, ok))
         /\ IF ok
            THEN /\ \E out \in FreeTexts : runnable_output' = out
                 /\ pc' = "structured"
                 /\ UNCHANGED failed_at
            ELSE /\ pc' = "aborted"
                 /\ failed_at' = "runnable.invoke"
                 /\ UNCHANGED runnable_output
    /\ UNCHANGED <<env0, environ, prompted, llm_key, text, paragraphs, para_i,
                   returned, propositions, vectors, index, index0,
                   uploaded, ids_to_check, resp, run>>

\* result = structured_llm.invoke(runnable_output); return result.sentences;
\* propositions.extend(extracted)
InvokeStructured ==
    /\ pc = "structured"
    /\ \E ok \in BOOLEAN :
         /\ log' = Append(log, Call("structured_llm.invoke", para_i, ok))
         /\ IF ok
            THEN /\ \E sentences \in ExtractorOutputs :
                      /\ returned' = Append(returned, sentences)
                      /\ propositions' = Extend(propositions, sentences)
                 /\ para_i' = para_i + 1
                 /\ pc' = IF para_i' <= Len(paragraphs)
                          THEN "runnable"
                          ELSE PcAfterEncode(0, Len(propositions'))
                 /\ UNCHANGED failed_at
            ELSE /\ pc' = "aborted"
                 /\ failed_at' = "structured_llm.invoke"
                 /\ UNCHANGED <<returned, propositions, para_i>>
    /\ UNCHANGED <<env0, environ, prompted, llm_key, text, paragraphs, text_chunk,
                   runnable_output, vectors, index, index0,
                   uploaded, ids_to_check, resp, run>>

EncodeUpsertingEach ==
    /\ pc = "encode"
    /\ LET i == Len(vectors)
           sent == propositions[i + 1]
       IN  \E ok \in BOOLEAN :
             /\ log' = Append(log, Call("embedding_model.encode", i, ok))
             /\ IF ok
                THEN /\ vectors' = Append(vectors, MakeRecord(i, sent))
                     /\ index' = Upsert(index, <<MakeRecord(i, sent)>>)
                     /\ pc' = PcAfterEncode(Len(vectors'), Len(propositions))
                     /\ UNCHANGED failed_at
                ELSE /\ pc' = "aborted"
                     /\ failed_at' = "embedding_model.encode"
                     /\ UNCHANGED <<vectors, index>>
    /\ UNCHANGED <<env0, environ, prompted, llm_key, text, paragraphs, para_i,
                   text_chunk, runnable_output, returned, propositions, index0,
                   uploaded, ids_to_check, resp, run>>

\* one turn of the embedding loop:
\* embedding = embedding_model.encode(sent).tolist(); vectors.append({...})
EncodeNext ==
    /\ pc = "encode"
    /\ LET i == Len(vectors)
           sent == propositions[i + 1]
       IN  \E ok \in BOOLEAN :
             /\ log' = Append(log, Call("embedding_model.encode", i, ok))
             /\ IF ok
                THEN /\ vectors' = Append(vectors, MakeRecord(i, sent))
                     /\ pc' = PcAfterEncode(Len(vectors'), Len(propositions))
                     /\ UNCHANGED failed_at
                ELSE /\ pc' = "aborted"
                     /\ failed_at' = "embedding_model.encode"
                     /\ UNCHANGED vectors
    /\ UNCHANGED <<env0, environ, prompted, llm_key, text, paragraphs, para_i,
                   text_chunk, runnable_output, returned, propositions, index, index0,
                   uploaded, ids_to_check, resp, run>>

\* index.upsert(vectors=vectors); print("Successfully uploaded ...").
\* A call that raises may or may not have been applied by the service.
UpsertVectors ==
    /\ pc = "upsert"
    /\ \E ok \in BOOLEAN :
         /\ log' = Append(log, Call("index.upsert", Len(vectors), ok))
         /\ IF ok
            THEN /\ index' = Upsert(index, vectors)
                 /\ uploaded' = TRUE
                 /\ pc' = "fetch"
                 /\ UNCHANGED failed_at
            ELSE /\ index' \in {index, Upsert(index, vectors)}
                 /\ pc' = "aborted"
                 /\ failed_at' = "index.upsert"
                 /\ UNCHANGED uploaded
    /\ UNCHANGED <<env0, environ, prompted, llm_key, text, paragraphs, para_i,
                   text_chunk, runnable_output, returned, propositions, vectors,
                   index0, ids_to_check, resp, run>>

\* ids_to_check = [f"prop_{i}" for i in range(5)]; resp = index.fetch(ids=ids_to_check)
FetchBack ==
    /\ pc = "fetch"
    /\ ids_to_check' = IdsToCheck
    /\ \E ok \in BOOLEAN :
         /\ log' = Append(log, Call("index.fetch", FetchCount, ok))
         /\ IF ok
            THEN /\ resp' = Fetch(index, ids_to_check')
                 /\ pc' = "print"
                 /\ UNCHANGED failed_at
            ELSE /\ pc' = "aborted"
                 /\ failed_at' = "index.fetch"
                 /\ UNCHANGED resp
    /\ UNCHANGED <<env0, environ, prompted, llm_key, text, paragraphs, para_i,
                   text_chunk, runnable_output, returned, propositions, vectors,
                   index, index0, uploaded, run>>

\* vectors = resp.get("vectors", {}); every record in it is printed
PrintFetched ==
    /\ pc = "print"
    /\ vectors' = resp
    /\ pc' = "done"
    /\ UNCHANGED <<env0, environ, prompted, llm_key, text, paragraphs, para_i,
                   text_chunk, runnable_output, returned, propositions,
                   index, index0, uploaded, ids_to_check, resp, log, failed_at,
                   run>>

Terminated == pc \in {"done", "aborted"}

\* the script is started again: a new process, the same remote index
Rerun ==
    /\ Terminated
    /\ run < MaxRuns
    /\ run' = run + 1
    /\ environ' = env0
    /\ index0' = index
    /\ prompted' = FALSE
    /\ llm_key' = NoKey
    /\ paragraphs' = <<>>
    /\ para_i' = 1
    /\ text_chunk' = <<>>
    /\ runnable_output' = ""
    /\ returned' = <<>>
    /\ propositions' = <<>>
    /\ vectors' = <<>>
    /\ uploaded' = FALSE
    /\ ids_to_check' = <<>>
    /\ resp' = <<>>
    /\ log' = <<>>
    /\ failed_at' = "none"
    /\ pc' = "start"
    /\ UNCHANGED <<env0, text, index>>

RunStep ==
    \/ SetEnviron
    \/ CheckKey
    \/ BuildClients
    \/ SplitText
    \/ InvokeRunnable
    \/ InvokeStructured
    \/ EncodeNext
    \/ UpsertVectors
    \/ FetchBack
    \/ PrintFetched

Next ==
    \/ RunStep
    \/ Rerun

Spec == Init /\ [][Next]_vars

TextSpec == InitAnyText /\ [][RunStep]_vars

\* The interpreter runs one statement after the other on a single thread, and
\* every blocking call returns or raises: a run that can take a step takes it.
FairSpec == Init /\ [][Next]_vars /\ WF_vars(RunStep)

-----------------------------------------------------------------------------
(* Properties *)

NProps == Len(propositions)

\* {prop_0, ..., prop_{n-1}}
PropIds(n) == {PropId(k - 1) : k \in 1..n}

IsPrefix(a, b) == Len(a) <= Len(b) /\ SubSeq(b, 1, Len(a)) = a

RECURSIVE Flatten(_)
Flatten(lists) ==
    IF lists = <<>> THEN <<>> ELSE Head(lists) \o Flatten(Tail(lists))

\* the records of idx stored under ids other than prop_0 .. prop_{n-1}
Others(idx, n) == {r \in idx : r.id \notin PropIds(n)}

\* vectors is still the list built by the embedding loop, and the loop is over
BatchBuilt ==
    \/ pc \in {"upsert", "fetch", "print"}
    \/ pc = "aborted" /\ failed_at \in {"index.upsert", "index.fetch"}

\* C1 as stated: once the upsert has returned with N propositions, the index
\* holds exactly N records, their ids are exactly prop_0 .. prop_{N-1}, and
\* fetching prop_i returns the text of proposition i.
C1_ExactlyN ==
    uploaded =>
        /\ Cardinality(index) = NProps
        /\ Ids(index) = PropIds(NProps)
        /\ \A i \in 0..(NProps - 1) :
             /\ Len(Fetch(index, <<PropId(i)>>)) = 1
             /\ Fetch(index, <<PropId(i)>>)[1].metadata.content = propositions[i + 1]

\* C1 amended: once the upsert has returned with N propositions, the index
\* holds exactly one record under each id prop_0 .. prop_{N-1}, fetching prop_i
\* returns the text of proposition i, and the records the index held before the
\* run under other ids are all still there, unchanged, and nothing else is: the
\* index holds N records plus those.
C1_UpsertedPlusOthers ==
    uploaded =>
        /\ \A i \in 0..(NProps - 1) :
             /\ Cardinality({r \in index : r.id = PropId(i)}) = 1
             /\ Len(Fetch(index, <<PropId(i)>>)) = 1
             /\ Fetch(index, <<PropId(i)>>)[1].metadata.content = propositions[i + 1]
        /\ Others(index, NProps) = Others(index0, NProps)
        /\ Cardinality(index) = NProps + Cardinality(Others(index0, NProps))

C1_Witness ==
    /\ uploaded
    /\ NProps = 5
    /\ Others(index0, NProps) # {}
    /\ Others(index0, NProps) # index0

\* C2: a call that raises is the last call of the run (the run is aborted at
\* that call, which is not made again), and when the call that raised is an LLM
\* call or an embedding call the index is exactly as it was before the run.
C2_FailureAbortsNothingPersisted ==
    /\ (pc = "aborted") = (failed_at # "none")
    /\ \A k \in 1..Len(log) :
         ~log[k].ok => /\ k = Len(log)
                       /\ pc = "aborted"
                       /\ failed_at = log[k].call
    /\ pc = "aborted" => log # <<>> /\ ~log[Len(log)].ok
    /\ \A j, k \in 1..Len(log) :
         (log[j].call = log[k].call /\ log[j].k = log[k].k) => j = k
    /\ failed_at \in {"runnable.invoke", "structured_llm.invoke",
                      "embedding_model.encode"} => index = index0
    /\ pc \in {"runnable", "structured", "encode", "upsert"} => index = index0

C2_Witness ==
    /\ pc = "aborted"
    /\ failed_at = "structured_llm.invoke"
    /\ Len(returned) = 2
    /\ propositions # <<>>
    /\ index0 # {}

\* C3: when the script's upsert is done again on an index that already holds a
\* record under every id prop_0 .. prop_{N-1} of the batch, it overwrites them:
\* the index has the same set of ids and the same number of records after the
\* upsert as before it.
C3_UpsertIdempotentOnIds ==
    (uploaded /\ PropIds(NProps) \subseteq Ids(index0)) =>
        /\ Ids(index) = Ids(index0)
        /\ Cardinality(index) = Cardinality(index0)

C3_Witness ==
    /\ run = 2
    /\ uploaded
    /\ NProps = 3
    /\ Ids(index0) = PropIds(3)
    /\ index # index0

\* C4: the text of three blank-line-separated paragraphs is split into exactly
\* three paragraphs, and when the extractor returned ["A.", "B."] for each, the
\* run has 6 propositions and a batch of 6 records with ids prop_0 .. prop_5,
\* which are 6 records of the index once the upsert has returned.
C4_ThreeParagraphsSixRecords ==
    /\ (text = Text3 /\ pc \notin {"start", "check_key", "build_llm", "split"})
           => Len(paragraphs) = 3
    /\ (BatchBuilt /\ returned = <<(<<"A.", "B.">>), <<"A.", "B.">>, <<"A.", "B.">>>>)
           => /\ NProps = 6
              /\ Len(vectors) = 6
              /\ \A k \in 1..6 : vectors[k].id = PropId(k - 1)
              /\ Cardinality(Range(vectors)) = 6
              /\ uploaded => Cardinality(Range(Fetch(index, IdsToCheck \o <<PropId(5)>>))) = 6

C4_Witness ==
    /\ text = Text3
    /\ returned = <<(<<"A.", "B.">>), <<"A.", "B.">>, <<"A.", "B.">>>>
    /\ uploaded
    /\ pc = "fetch"

\* C5: when upsert is about to be called, the batch has one record per
\* extracted proposition, record i has id prop_i and content proposition i, the
\* propositions are the extractor's results in paragraph order, each in the
\* order returned, and the ids of the batch are pairwise distinct.
C5_BatchMatchesPropositions ==
    pc = "upsert" =>
        /\ Len(vectors) = NProps
        /\ propositions = Flatten(returned)
        /\ Len(returned) = Len(paragraphs)
        /\ \A i \in 0..(NProps - 1) :
             /\ vectors[i + 1].id = PropId(i)
             /\ vectors[i + 1].metadata.content = propositions[i + 1]
        /\ \A j, k \in 1..Len(vectors) :
             vectors[j].id = vectors[k].id => j = k

C5_Witness ==
    /\ pc = "upsert"
    /\ returned = <<(<<"A.", "B.">>), <<"A.">>, <<>> >>
    /\ Len(vectors) = 3

\* C6 as stated: the key the LLM client is built with is the GOOGLE_API_KEY of
\* the environment the process started with whenever that variable was set, and
\* the user was prompted exactly when it was not set.
C6_KeyFromEnvironment ==
    llm_key # NoKey =>
        /\ env0 # NoKey => llm_key = env0
        /\ prompted = (env0 = NoKey)

\* the records built by this run, as upserted
BuiltRecords == {MakeRecord(k - 1, propositions[k]) : k \in 1..NProps}

\* C7 as stated: every id passed to fetch is the id of a record of this run's
\* batch, and every record the fetch returned was written by this run.
C7_FetchesOwnRecords ==
    pc \in {"print", "done"} =>
        /\ Range(ids_to_check) \subseteq PropIds(NProps)
        /\ Range(resp) \subseteq BuiltRecords

\* one step of a run, as the write-once discipline allows it
C8_Step ==
    /\ pc' # "start" => IsPrefix(propositions, propositions')
    /\ (pc # "done" /\ pc' \notin {"start", "done"}) => IsPrefix(vectors, vectors')
    /\ index' # index =>
         /\ pc = "upsert"
         /\ \A k \in 1..Len(log) : log[k].call # "index.upsert"
         /\ Cardinality(Ids(Range(vectors))) = Len(vectors)
         /\ Ids(index) \subseteq Ids(index')
         /\ Others(index', NProps) = Others(index, NProps)
    /\ pc' # "start" => index0' = index0

\* C8: in every step of a run, propositions and (until the name is rebound to
\* the fetch response) vectors only grow at the end; the index changes only in
\* the upsert step, which is taken at most once in a run with pairwise distinct
\* ids, removes no id from the index, and leaves every record stored under an
\* id outside prop_0 .. prop_{N-1} as it was.
C8_WriteOnce == [][C8_Step]_vars

C8_Witness ==
    /\ pc = "done"
    /\ NProps = 3
    /\ index # index0
    /\ Others(index0, NProps) # {}

\* the lines of s: the pieces between newline characters
RECURSIVE LinesOf(_, _)
LinesOf(s, cur) ==
    IF s = <<>> THEN <<cur>>
    ELSE IF Head(s) = NL THEN <<cur>> \o LinesOf(Tail(s), <<>>)
    ELSE LinesOf(Tail(s), Append(cur, Head(s)))

\* an empty line; with ws, a line holding only whitespace too
IsBlankLine(line, ws) ==
    IF ws THEN \A k \in 1..Len(line) : line[k] \in Whitespace ELSE line = <<>>

TrimmedBlock(cur) == IF Strip(cur) = <<>> THEN <<>> ELSE <<Strip(cur)>>

\* the maximal runs of lines between blank lines, each joined by newlines and
\* trimmed, those that are empty after trimming left out
RECURSIVE BlocksOf(_, _, _)
BlocksOf(lines, cur, ws) ==
    IF lines = <<>> THEN TrimmedBlock(cur)
    ELSE IF IsBlankLine(Head(lines), ws)
         THEN TrimmedBlock(cur) \o BlocksOf(Tail(lines), <<>>, ws)
         ELSE BlocksOf(Tail(lines),
                       IF cur = <<>> THEN Head(lines) ELSE cur \o <<NL>> \o Head(lines),
                       ws)

Trimmed(p) == p # <<>> /\ p[1] \notin Whitespace /\ p[Len(p)] \notin Whitespace

SplitDone == pc \notin {"start", "check_key", "build_llm", "split"}

\* get_propositions has been called in this run
ExtractorCalled == \E k \in 1..Len(log) : log[k].call = "runnable.invoke"

\* C9 as stated: the paragraphs are the blocks of the text between blank
\* lines, a line holding only whitespace counting as blank, each trimmed and
\* none empty, and get_propositions is called with such a paragraph only.
C9_WhitespaceLineSeparates ==
    SplitDone =>
        /\ paragraphs = BlocksOf(LinesOf(text, <<>>), <<>>, TRUE)
        /\ \A k \in 1..Len(paragraphs) : Trimmed(paragraphs[k])
        /\ ExtractorCalled => Trimmed(text_chunk)

\* C9 amended: the paragraphs are, in order, the blocks of the text between
\* empty lines (two newline characters in a row), each trimmed and none empty,
\* and get_propositions is called with such a paragraph only; a line that holds
\* only whitespace does not separate, it stays inside its paragraph.
C9_EmptyLineSeparates ==
    SplitDone =>
        /\ paragraphs = BlocksOf(LinesOf(text, <<>>), <<>>, FALSE)
        /\ \A k \in 1..Len(paragraphs) : Trimmed(paragraphs[k])
        /\ ExtractorCalled =>
             /\ Trimmed(text_chunk)
             /\ text_chunk \in Range(paragraphs)

C9_Witness ==
    /\ pc = "structured"
    /\ Head(text) = NL
    /\ Len(paragraphs) = 2
    /\ para_i = 2

\* the k-th external call of a run with the paragraphs and propositions at hand
ExpectedCall(k) ==
    LET P == Len(paragraphs)
    IN  IF k <= 2 * P
        THEN IF k % 2 = 1
             THEN [call |-> "runnable.invoke", k |-> (k + 1) \div 2]
             ELSE [call |-> "structured_llm.invoke", k |-> k \div 2]
        ELSE IF k <= 2 * P + NProps
        THEN [call |-> "embedding_model.encode", k |-> k - 2 * P - 1]
        ELSE IF k = 2 * P + NProps + 1
        THEN [call |-> "index.upsert", k |-> NProps]
        ELSE [call |-> "index.fetch", k |-> FetchCount]

\* the calls made so far are the first calls of the run's schedule
CallsInOrder ==
    LET P == Len(paragraphs)
    IN  /\ Len(log) <= 2 * P + NProps + 2
        /\ \A k \in 1..Len(log) :
             /\ log[k].call = ExpectedCall(k).call
             /\ log[k].k = ExpectedCall(k).k
             /\ log[k].ok \/ (k = Len(log) /\ pc = "aborted")
        /\ pc = "structured" => Len(log) % 2 = 1 /\ Len(log) < 2 * P
        /\ pc = "encode" => Len(log) = 2 * P + Len(vectors) /\ Len(vectors) < NProps
        /\ pc = "upsert" => Len(log) = 2 * P + NProps
        /\ uploaded => Len(log) > 2 * P + NProps /\ log[2 * P + NProps + 1].ok
        /\ pc = "fetch" => Len(log) = 2 * P + NProps + 1 /\ uploaded
        /\ pc \in {"print", "done"} => Len(log) = 2 * P + NProps + 2 /\ uploaded

\* C10: the external calls of a run are, in order, the prompt call and the
\* schema-constrained call for paragraph 1, 2, .., P, then the embedding of
\* proposition 0, 1, .., N-1, then one upsert, then one fetch: a call that
\* raises is the last one, a run that completes made all 2P + N + 2 of them, no
\* run makes more, the success message is printed only once the upsert has
\* returned, and every run that starts ends, completed or aborted.
C10_LinearControlFlow ==
    /\ []CallsInOrder
    /\ (pc = "start") ~> Terminated

C10_Witness ==
    /\ pc = "done"
    /\ Len(paragraphs) = 3
    /\ NProps = 4
    /\ Len(log) = 12

====
